---------------------------- MODULE Spec2Model ----------------------------
(***************************************************************************)
(* Model of S1burstkmz2geojsontile.py (full-resolution tiling, "tile") and *)
(* S1burstkmz2geojsontile_dissolve.py (overview, "dissolve").              *)
(*                                                                         *)
(* Units: latitudes and longitudes are integers in tenths of a degree      *)
(* (840 is 84.0 degrees).  A string that the code splits is a sequence of  *)
(* atoms: the delimiters "<" and ">" and runs of other text.               *)
(***************************************************************************)
EXTENDS Integers, Sequences, FiniteSets, TLC

VARIABLES
    mode,       \* which script runs: "tile" or "dissolve"
    zl,         \* args.zoomlevel (tile); the literal '1' of the path (dissolve)
    dirs,       \* existing pyramid directories bname+AD+i, as <<AD, i>>
    fs,         \* tile files: path key -> the 'features' list stored in it
    pc,         \* position of main
    ri,         \* position in the reset loop
    nkmz,       \* datasets taken from the glob so far
    path,       \* geojson[0:3] of the current dataset
    i,          \* partition index of the current dataset
    nfeat,      \* features read so far, over all datasets
    AD,         \* main's local AD
    color,      \* main's local color
    polygonsA,  \* dissolve: polygons collected for direction A
    polygonsD,  \* dissolve: polygons collected for direction D
    dj,         \* dissolve: position in zip(['A','D'], ...)
    pending,    \* dissolve: polygons of dissolved_poly not yet visited
    last,       \* history: index of the feature the last step read (0: none)
    created,    \* history: keys whose file add_feature created in this run
    log,        \* history: key -> features passed to add_feature, in order
    naccepted,  \* history: footprints that passed classification and filter
    q           \* latlon2tileid applied to drawn inputs (SpecTileId)

vars == <<mode, zl, dirs, fs, pc, ri, nkmz, path, i, nfeat, AD, color,
          polygonsA, polygonsD, dj, pending, last, created, log, naccepted, q>>

---------------------------------------------------------------------------
(* Bounds of the model *)

MaxDatasets == 2

MaxFeatures == 3

MaxZoom == 6

---------------------------------------------------------------------------
(* Program constants *)

colorA == "#0000ff"

colorD == "#ff0000"

bname == "S1burst"

\* addarg('-z', '--zoomlevel', type=int, default=6)
DefaultZoom == 6

\* range(1, 5) of the reset loop
RangeStart == 1

RangeStop == 5

\* np.mod(int(path), 5)
PartitionModulus == 5

\* lat > 84 or lat < -84, in tenths of a degree
LatLimit == 840

Unbound == "unbound"

---------------------------------------------------------------------------
(* Pure helpers *)

RECURSIVE Pow2(_)
Pow2(n) == IF n = 0 THEN 1 ELSE 2 * Pow2(n - 1)

\* Python's int(): truncation toward zero of a / b, b > 0
TruncDiv(a, b) == IF a >= 0 THEN a \div b ELSE -((-a) \div b)

\* (-ln(tan(deg2rad(45 + lat/2))) + pi) / (2 pi), in millionths truncated
\* toward zero, tabulated from the code's expression for the latitudes
\* the model draws
MercatorMicro(lat) ==
    CASE lat = -850 -> 998362
      [] lat = -841 -> 971979
      [] lat = -840 -> 969300
      [] lat = 0    -> 500000
      [] lat = 350  -> 396097
      [] lat = 351  -> 395758
      [] lat = 840  -> 30699
      [] lat = 841  -> 28020
      [] lat = 850  -> 1637
      [] lat = 890  -> -254609

\* x = int((lon/180+1)*2**zl/2)
TileX(lon, z) == TruncDiv((lon + 1800) * Pow2(z), 3600)

\* y = int((-log(tan(deg2rad(45+lat/2)))+pi)*2**zl/(2*pi))
TileY(lat, z) == TruncDiv(MercatorMicro(lat) * Pow2(z), 1000000)

latlon2tileid(lat, lon, z) == <<TileX(lon, z), TileY(lat, z)>>

\* str.split(sep): the maximal runs between occurrences of sep
RECURSIVE Split(_, _)
Split(s, sep) ==
    IF \A k \in 1..Len(s) : s[k] # sep
    THEN <<s>>
    ELSE LET k == CHOOSE m \in 1..Len(s) :
                      s[m] = sep /\ \A n \in 1..(m - 1) : s[n] # sep
         IN  <<SubSeq(s, 1, k - 1)>> \o Split(SubSeq(s, k + 1, Len(s)), sep)

IndexError == <<"IndexError">>

\* descr.split('>')[n].split('<')[0]
Token(descr, n) ==
    LET segs == Split(descr, ">")
    IN  IF Len(segs) < n + 1 THEN IndexError
        ELSE Split(segs[n + 1], "<")[1]

\* a three-character dataset prefix read as an integer: int(path)
DigitValue(c) ==
    CASE c = "0" -> 0 [] c = "1" -> 1 [] c = "2" -> 2 [] c = "3" -> 3
      [] c = "4" -> 4 [] c = "5" -> 5 [] c = "6" -> 6 [] c = "7" -> 7
      [] c = "8" -> 8 [] c = "9" -> 9 [] OTHER -> -1

IsNumeric(p) == \A k \in 1..Len(p) : DigitValue(p[k]) >= 0

RECURSIVE ParseInt(_)
ParseInt(p) ==
    IF p = <<>> THEN 0
    ELSE 10 * ParseInt(SubSeq(p, 1, Len(p) - 1)) + DigitValue(p[Len(p)])

\* mutant: the remainder 0 is not remapped
PartitionIndexNoRemap(p) == ParseInt(p) % PartitionModulus

\* i = np.mod(int(path), 5); if i == 0: i = 5
PartitionIndex(p) ==
    LET m == ParseInt(p) % PartitionModulus
    IN  IF m = 0 THEN PartitionModulus ELSE m

\* mutant: the bounds themselves are dropped too
LatFilteredInclusive(lat) == lat >= LatLimit \/ lat <= -LatLimit

\* cannot display on web map
LatFiltered(lat) == lat > LatLimit \/ lat < -LatLimit

---------------------------------------------------------------------------
(* Inputs: what ogr2ogr hands to main *)

Tags(n) == [k \in 1..(3 * n) |->
               IF k % 3 = 1 THEN "<" ELSE IF k % 3 = 2 THEN "td" ELSE ">"]

\* properties.description: markup in which the orbit direction, the burst
\* id and the swath are the text after the 11th, 17th and 23rd '>'
Descr(orb, bid, swath) ==
    Tags(11) \o <<orb>> \o Tags(6) \o <<bid>> \o Tags(6) \o <<swath>> \o Tags(2)

\* geometry.coordinates[0]: a closed ring; its first vertex is <<lon, lat>>
Ring(lon, lat, dlon, dlat) ==
    << <<lon, lat>>, <<lon + dlon, lat>>, <<lon + dlon, lat + dlat>>,
       <<lon, lat + dlat>>, <<lon, lat>> >>

InputFeature(orb, bid, swath, ring) ==
    [properties |-> [description |-> Descr(orb, bid, swath)],
     geometry   |-> [type |-> "Polygon", coordinates |-> <<ring>>]]

\* the features a dataset may hold
InputFeatures ==
    << InputFeature("ASCENDING",  "b1", "IW1", Ring(1390, 350, 10, -10)),
       InputFeature("DESCENDING", "b2", "IW2", Ring(-1800, -840, 10, 10)),
       InputFeature("ASCENDING",  "b3", "IW3", Ring(1800, 840, -10, -10)),
       InputFeature("DESCENDING", "b4", "IW1", Ring(1395, 841, 10, -10)),
       InputFeature("UNKNOWN",    "b5", "IW2", Ring(1390, 350, 10, -10)),
       InputFeature("UNKNOWN",    "b6", "IW3", Ring(0, -841, 10, 10)),
       InputFeature("ASCENDING",  "b7", "IW2", Ring(1395, 351, 10, -10)) >>

FeatureIds == 1..Len(InputFeatures)

\* the first three characters of a dataset's file name
DatasetIds ==
    { <<"0", "0", "3">>, <<"0", "0", "8">>, <<"0", "1", "0">>,
      <<"0", "0", "0">>, <<"a", "b", "c">> }

ZoomLevels == {1, DefaultZoom}

\* orb = descr.split('>')[11].split('<')[0]
orbOf == [f \in FeatureIds |-> Token(InputFeatures[f].properties.description, 11)]

\* bid = descr.split('>')[17].split('<')[0]
bidOf == [f \in FeatureIds |-> Token(InputFeatures[f].properties.description, 17)]

\* swath = descr.split('>')[23].split('<')[0]
swathOf == [f \in FeatureIds |-> Token(InputFeatures[f].properties.description, 23)]

\* lat = geometry['coordinates'][0][0][1]
latOf(f) == InputFeatures[f].geometry.coordinates[1][1][2]

\* lon = geometry['coordinates'][0][0][0]
lonOf(f) == InputFeatures[f].geometry.coordinates[1][1][1]

---------------------------------------------------------------------------
(* The output tree *)

Directions == {"A", "D"}

Scopes == Directions \X (1..PartitionModulus)

\* os.path.join(bname+f'{AD}{i}', str(zl), str(x), str(y)+'.geojson')
TilePath(ad, part, z, x, y) == <<bname, ad, part, z, x, y>>

ScopeOf(key) == <<key[2], key[3]>>

\* mutant: the overview file is 1/1/1.geojson
OverviewPathRow1(ad, part) == TilePath(ad, part, 1, 1, 1)

\* os.path.join(bname+f'{AD}{i}', '1', '1', '0.geojson')
OverviewPath(ad, part) == TilePath(ad, part, 1, 1, 0)

\* subprocess.run(['rm', '-rf', bdir])
RemoveTree(F, scope) ==
    [k \in {kk \in DOMAIN F : ScopeOf(kk) # scope} |-> F[k]]

\* mutant: the stored list is not read back before the write
add_feature_overwrite(F, feature, geojson) ==
    LET F1 == IF geojson \notin DOMAIN F THEN F @@ (geojson :> <<>>) ELSE F
    IN  [F1 EXCEPT ![geojson] = <<feature>>]

\* add_feature(feature, geojson): create the file if absent, read the
\* list, append, write the whole list back
add_feature(F, feature, geojson) ==
    LET F1 == IF geojson \notin DOMAIN F THEN F @@ (geojson :> <<>>) ELSE F
        features_list == Append(F1[geojson], feature)
    IN  [F1 EXCEPT ![geojson] = features_list]

Properties(name, col) ==
    [name |-> name, _color |-> col, _fillColor |-> col]

OutFeature(name, col, geometry) ==
    [type |-> "Feature", properties |-> Properties(name, col),
     geometry |-> geometry]

\* a feature written by an earlier run
StaleFeature == OutFeature(<<"earlier run">>, colorA, [type |-> "Polygon"])

\* the trees an earlier run over all partitions left behind
EarlierOutput == [k \in {OverviewPath(s[1], s[2]) : s \in Scopes} |->
                     <<StaleFeature>>]

EmptyTree == [k \in {} |-> <<>>]

---------------------------------------------------------------------------
(* Dissolution: polygons are the footprints' rings *)

Lons(ring) == {ring[k][1] : k \in 1..Len(ring)}

Lats(ring) == {ring[k][2] : k \in 1..Len(ring)}

Min(S) == CHOOSE m \in S : \A n \in S : m <= n

Max(S) == CHOOSE m \in S : \A n \in S : m >= n

\* two box rings share area or a stretch of boundary
Touch(r1, r2) ==
    LET olon == Min({Max(Lons(r1)), Max(Lons(r2))})
                  - Max({Min(Lons(r1)), Min(Lons(r2))})
        olat == Min({Max(Lats(r1)), Max(Lats(r2))})
                  - Max({Min(Lats(r1)), Min(Lats(r2))})
    IN  (olon > 0 /\ olat >= 0) \/ (olon >= 0 /\ olat > 0)

RECURSIVE Grow(_, _)
Grow(S, P) ==
    LET T == S \cup {r \in P : \E s \in S : Touch(r, s)}
    IN  IF T = S THEN S ELSE Grow(T, P)

\* mutant: an empty list yields one (empty) polygon
unary_union_nonempty(polygons) ==
    LET P == {polygons[k] : k \in 1..Len(polygons)}
    IN  IF P = {} THEN {{}} ELSE {Grow({r}, P) : r \in P}

\* unary_union(MultiPolygon(polygons)) as the collection the loop visits:
\* one region per connected group of rings, none for an empty list.  A
\* region is the set of rings it covers; simplify(0.05) moves no corner
\* of a one-degree box, so poly2 is the region itself.
unary_union(polygons) ==
    LET P == {polygons[k] : k \in 1..Len(polygons)}
    IN  {Grow({r}, P) : r \in P}

---------------------------------------------------------------------------
(* main *)

NoQuery == [done |-> FALSE, lat |-> 0, lon |-> 0, zl |-> 0, x |-> 0, y |-> 0]

\* for i in range(1, 5): for AD in ['A', 'D']
ResetScopes ==
    [k \in 1..(2 * (RangeStop - RangeStart)) |->
        <<IF k % 2 = 1 THEN "A" ELSE "D", RangeStart + ((k - 1) \div 2)>>]

\* The state main starts in: the script and its zoom level are chosen, and
\* the output trees are absent or left by an earlier run.
Init ==
    /\ \/ mode = "tile" /\ zl \in ZoomLevels
       \/ mode = "dissolve" /\ zl = 1
    /\ \/ fs = EmptyTree /\ dirs = {}
       \/ fs = EarlierOutput /\ dirs = Scopes
    /\ pc = "reset"
    /\ ri = 1
    /\ nkmz = 0
    /\ path = <<>>
    /\ i = 0
    /\ nfeat = 0
    /\ AD = Unbound
    /\ color = Unbound
    /\ polygonsA = <<>>
    /\ polygonsD = <<>>
    /\ dj = 1
    /\ pending = {}
    /\ last = 0
    /\ created = {}
    /\ log = EmptyTree
    /\ naccepted = 0
    /\ q = NoQuery

\* One iteration of the reset loop: rm -rf of an existing bdir, makedirs.
ResetDir ==
    /\ pc = "reset"
    /\ LET bdir == ResetScopes[ri]
       IN  /\ fs' = IF bdir \in dirs THEN RemoveTree(fs, bdir) ELSE fs
           /\ dirs' = dirs \cup {bdir}
    /\ ri' = ri + 1
    /\ pc' = IF ri = Len(ResetScopes) THEN "kmz" ELSE "reset"
    /\ last' = 0
    /\ UNCHANGED <<mode, zl, nkmz, path, i, nfeat, AD, color, polygonsA,
                   polygonsD, dj, pending, created, log, naccepted, q>>

\* The glob yields another kmz: path = geojson[0:3], i from int(path);
\* int() raises ValueError on a prefix that is no number.
NextKmz ==
    /\ pc = "kmz"
    /\ nkmz < MaxDatasets
    /\ \E id \in DatasetIds :
          /\ path' = id
          /\ IF IsNumeric(id)
             THEN /\ i' = PartitionIndex(id)
                  /\ pc' = "burst"
             ELSE /\ i' = i
                  /\ pc' = "failed"
    /\ nkmz' = nkmz + 1
    /\ polygonsA' = <<>>
    /\ polygonsD' = <<>>
    /\ last' = 0
    /\ UNCHANGED <<mode, zl, dirs, fs, ri, nfeat, AD, color, dj, pending,
                   created, log, naccepted, q>>

\* The glob is exhausted: main prints and returns.
Finish ==
    /\ pc = "kmz"
    /\ pc' = "done"
    /\ last' = 0
    /\ UNCHANGED <<mode, zl, dirs, fs, ri, nkmz, path, i, nfeat, AD, color,
                   polygonsA, polygonsD, dj, pending, created, log,
                   naccepted, q>>

Append1(L, key, feature) ==
    IF key \in DOMAIN L THEN [L EXCEPT ![key] = Append(@, feature)]
    ELSE L @@ (key :> <<feature>>)

\* One iteration of "for feature in features_list" of the tile script:
\* classify, then filter by latitude, then file under the first vertex's tile.
TileBurst(f) ==
    /\ pc = "burst"
    /\ mode = "tile"
    /\ nfeat < MaxFeatures
    /\ nfeat' = nfeat + 1
    /\ last' = f
    /\ LET orb == orbOf[f]
           ad == IF orb = <<"ASCENDING">> THEN "A" ELSE "D"
           col == IF orb = <<"ASCENDING">> THEN colorA ELSE colorD
           name == <<path, ad, swathOf[f], bidOf[f]>>
           geometry == InputFeatures[f].geometry
           out_feature == OutFeature(name, col, geometry)
           xy == latlon2tileid(latOf(f), lonOf(f), zl)
           out_jsonfile == TilePath(ad, i, zl, xy[1], xy[2])
       IN  IF orb \notin {<<"ASCENDING">>, <<"DESCENDING">>}
           THEN \* raise ValueError (IndexError on a short description)
                /\ pc' = "failed"
                /\ UNCHANGED <<AD, color, fs, dirs, created, log, naccepted>>
           ELSE /\ AD' = ad
                /\ color' = col
                /\ pc' = "burst"
                /\ IF LatFiltered(latOf(f))
                   THEN UNCHANGED <<fs, dirs, created, log, naccepted>>
                   ELSE /\ fs' = add_feature(fs, out_feature, out_jsonfile)
                        /\ dirs' = dirs \cup {ScopeOf(out_jsonfile)}
                        /\ created' = IF out_jsonfile \in DOMAIN fs
                                      THEN created
                                      ELSE created \cup {out_jsonfile}
                        /\ log' = Append1(log, out_jsonfile, out_feature)
                        /\ naccepted' = naccepted + 1
    /\ UNCHANGED <<mode, zl, ri, nkmz, path, i, polygonsA, polygonsD, dj,
                   pending, q>>

\* One iteration of "for feature in features_list" of the dissolve script:
\* filter by latitude, then classify and collect the polygon.
DissolveBurst(f) ==
    /\ pc = "burst"
    /\ mode = "dissolve"
    /\ nfeat < MaxFeatures
    /\ nfeat' = nfeat + 1
    /\ last' = f
    /\ LET orb == orbOf[f]
           polygon == InputFeatures[f].geometry.coordinates[1]
       IN  IF LatFiltered(latOf(f))
           THEN /\ pc' = "burst"
                /\ UNCHANGED <<AD, color, polygonsA, polygonsD, naccepted>>
           ELSE IF orb = <<"ASCENDING">>
           THEN /\ AD' = "A"
                /\ color' = colorA
                /\ polygonsA' = Append(polygonsA, polygon)
                /\ naccepted' = naccepted + 1
                /\ pc' = "burst"
                /\ UNCHANGED polygonsD
           ELSE IF orb = <<"DESCENDING">>
           THEN /\ AD' = "D"
                /\ color' = colorD
                /\ polygonsD' = Append(polygonsD, polygon)
                /\ naccepted' = naccepted + 1
                /\ pc' = "burst"
                /\ UNCHANGED polygonsA
           ELSE /\ pc' = "failed"
                /\ UNCHANGED <<AD, color, polygonsA, polygonsD, naccepted>>
    /\ UNCHANGED <<mode, zl, dirs, fs, ri, nkmz, path, i, dj, pending,
                   created, log, q>>

\* features_list is exhausted: the tile script removes the geojson and
\* takes the next kmz; the dissolve script goes on to dissolve.
EndBursts ==
    /\ pc = "burst"
    /\ pc' = IF mode = "tile" THEN "kmz" ELSE "union"
    /\ dj' = 1
    /\ last' = 0
    /\ UNCHANGED <<mode, zl, dirs, fs, ri, nkmz, path, i, nfeat, AD, color,
                   polygonsA, polygonsD, pending, created, log, naccepted, q>>

\* for AD, polygons in zip(['A', 'D'], [polygonsA, polygonsD]):
\*     dissolved_poly = unary_union(MultiPolygon(polygons))
Union ==
    /\ pc = "union"
    /\ AD' = IF dj = 1 THEN "A" ELSE "D"
    /\ pending' = unary_union(IF dj = 1 THEN polygonsA ELSE polygonsD)
    /\ pc' = "emit"
    /\ last' = 0
    /\ UNCHANGED <<mode, zl, dirs, fs, ri, nkmz, path, i, nfeat, color,
                   polygonsA, polygonsD, dj, created, log, naccepted, q>>

\* One iteration of "for _poly in dissolved_poly": the feature is built
\* with main's current color and added to the overview file.
Emit ==
    /\ pc = "emit"
    /\ \E _poly \in pending :
          LET name2 == <<path, AD>>
              geometry2 == [type |-> "Polygon", coordinates |-> _poly]
              out_feature == OutFeature(name2, color, geometry2)
              out_jsonfile == OverviewPath(AD, i)
          IN  /\ pending' = pending \ {_poly}
              /\ IF color = Unbound
                 THEN \* UnboundLocalError
                      /\ pc' = "failed"
                      /\ UNCHANGED <<fs, dirs, created, log>>
                 ELSE /\ pc' = "emit"
                      /\ fs' = add_feature(fs, out_feature, out_jsonfile)
                      /\ dirs' = dirs \cup {ScopeOf(out_jsonfile)}
                      /\ created' = IF out_jsonfile \in DOMAIN fs
                                    THEN created
                                    ELSE created \cup {out_jsonfile}
                      /\ log' = Append1(log, out_jsonfile, out_feature)
    /\ last' = 0
    /\ UNCHANGED <<mode, zl, ri, nkmz, path, i, nfeat, AD, color, polygonsA,
                   polygonsD, dj, naccepted, q>>

\* dissolved_poly is exhausted: the next direction, or the next kmz.
EndEmit ==
    /\ pc = "emit"
    /\ pending = {}
    /\ IF dj = 1
       THEN dj' = 2 /\ pc' = "union"
       ELSE dj' = 1 /\ pc' = "kmz"
    /\ last' = 0
    /\ UNCHANGED <<mode, zl, dirs, fs, ri, nkmz, path, i, nfeat, AD, color,
                   polygonsA, polygonsD, pending, created, log, naccepted, q>>

Next ==
    \/ ResetDir
    \/ NextKmz
    \/ Finish
    \/ \E f \in FeatureIds : TileBurst(f)
    \/ \E f \in FeatureIds : DissolveBurst(f)
    \/ EndBursts
    \/ Union
    \/ Emit
    \/ EndEmit

Spec == Init /\ [][Next]_vars

---------------------------------------------------------------------------
(* latlon2tileid on its own: inputs are drawn, then the function is applied *)

TileLats == {-840, 0, 350, 840}

TileLons == {-1800, -1799, -900, -1, 0, 900, 1390, 1799, 1800}

InitTileId ==
    /\ mode = "tile" /\ zl = DefaultZoom
    /\ fs = EmptyTree /\ dirs = {}
    /\ pc = "tileid"
    /\ ri = 1 /\ nkmz = 0 /\ path = <<>> /\ i = 0 /\ nfeat = 0
    /\ AD = Unbound /\ color = Unbound
    /\ polygonsA = <<>> /\ polygonsD = <<>> /\ dj = 1 /\ pending = {}
    /\ last = 0 /\ created = {} /\ log = EmptyTree /\ naccepted = 0
    /\ \E lat \in TileLats, lon \in TileLons, z \in 0..MaxZoom :
          q = [NoQuery EXCEPT !.lat = lat, !.lon = lon, !.zl = z]

ApplyTileId ==
    /\ pc = "tileid"
    /\ ~q.done
    /\ LET xy == latlon2tileid(q.lat, q.lon, q.zl)
       IN  q' = [q EXCEPT !.done = TRUE, !.x = xy[1], !.y = xy[2]]
    /\ UNCHANGED <<mode, zl, dirs, fs, pc, ri, nkmz, path, i, nfeat, AD, color,
                   polygonsA, polygonsD, dj, pending, last, created, log,
                   naccepted>>

NextTileId == ApplyTileId

SpecTileId == InitTileId /\ [][NextTileId]_vars

---------------------------------------------------------------------------
(* Properties *)

Asc == <<"ASCENDING">>

Desc == <<"DESCENDING">>

\* the places <<file, position>> of the features in the tile files
Stored == UNION {{<<k, n>> : n \in 1..Len(fs[k])} : k \in DOMAIN fs}

\* the places of the features this run passed to add_feature
Logged == UNION {{<<k, n>> : n \in 1..Len(log[k])} : k \in DOMAIN log}

RECURSIVE TotalFeatures(_, _)
TotalFeatures(F, K) ==
    IF K = {} THEN 0
    ELSE LET k == CHOOSE kk \in K : TRUE
         IN  Len(F[k]) + TotalFeatures(F, K \ {k})

InLatRange(ring) == ring[1][2] <= 840 /\ ring[1][2] >= -840

\* C1: a file that add_feature created in this run holds exactly the
\* features appended to its key, in append order (one after the first
\* append, two after the second, earlier features unchanged).
C1_AppendedInOrder ==
    \A k \in created : k \in DOMAIN fs /\ k \in DOMAIN log /\ fs[k] = log[k]

C1_Witness ==
    \E k \in created : Len(fs[k]) >= 2 /\ fs[k][1] # fs[k][2]

\* C2: once the run has appended to a (partition, direction) tree, no file
\* of that tree holds a feature of an earlier run: the tree was wiped
\* before the first append to it.
C2_WipedBeforeFirstAppend ==
    \A k \in DOMAIN log : \A kk \in DOMAIN fs :
        ScopeOf(kk) = ScopeOf(k) =>
            \A n \in 1..Len(fs[kk]) : fs[kk][n] # StaleFeature

\* C3: no feature whose first vertex lies beyond 84 degrees is in a tile
\* file or in a polygon list or in a dissolved region, and a classified
\* footprint at exactly 84 or -84 degrees is kept.
C3_LatitudeFilter ==
    /\ mode = "tile" =>
          \A e \in Stored :
              fs[e[1]][e[2]] # StaleFeature =>
                  InLatRange(fs[e[1]][e[2]].geometry.coordinates[1])
    /\ \A n \in 1..Len(polygonsA) : InLatRange(polygonsA[n])
    /\ \A n \in 1..Len(polygonsD) : InLatRange(polygonsD[n])
    /\ mode = "dissolve" =>
          \A e \in Logged :
              \A ring \in log[e[1]][e[2]].geometry.coordinates :
                  InLatRange(ring)
    /\ (last # 0 /\ latOf(last) \in {840, -840}
          /\ orbOf[last] \in {Asc, Desc}) =>
          LET ad == IF orbOf[last] = Asc THEN "A" ELSE "D"
              x == TileX(lonOf(last), zl)
              y == TileY(latOf(last), zl)
              k == TilePath(ad, i, zl, x, y)
              ring == InputFeatures[last].geometry.coordinates[1]
              polygons == IF ad = "A" THEN polygonsA ELSE polygonsD
          IN  IF mode = "tile"
              THEN /\ k \in DOMAIN fs
                   /\ fs[k][Len(fs[k])].geometry = InputFeatures[last].geometry
              ELSE /\ polygons # <<>>
                   /\ polygons[Len(polygons)] = ring

C3_Witness ==
    /\ last # 0 /\ latOf(last) > 840
    /\ pc = "burst"
    /\ \E e \in Logged :
          log[e[1]][e[2]].geometry = InputFeatures[3].geometry

\* C4: after a completed run of the tile script, the number of features
\* over all tile files equals the number of accepted footprints.
C4_TotalEqualsAccepted ==
    (mode = "tile" /\ pc = "done") =>
        TotalFeatures(fs, DOMAIN fs) = naccepted

\* C5: a footprint whose orbit-direction token is neither ASCENDING nor
\* DESCENDING makes processing fail; it is never skipped.
C5_BadTokenAborts ==
    (last # 0 /\ orbOf[last] \notin {Asc, Desc}) => pc = "failed"

\* C6: every overview feature emitted for direction A is blue and every
\* one emitted for direction D is red.
C6_ColorOfDirection ==
    mode = "dissolve" =>
        \A e \in Logged :
            LET p == log[e[1]][e[2]].properties
            IN  /\ p._color = (IF e[1][2] = "A" THEN "#0000ff" ELSE "#ff0000")
                /\ p._fillColor = p._color

\* C7: for every longitude in [-180, 180] and zoom z, tileX is in
\* 0 .. 2^z - 1, and longitude -180 gives tileX = 0.
C7_TileXInRange ==
    q.done => /\ 0 <= q.x /\ q.x <= Pow2(q.zl) - 1
              /\ q.lon = -1800 => q.x = 0

\* the value of a three-digit prefix, written out
PrefixValue(p) == 100 * DigitValue(p[1]) + 10 * DigitValue(p[2]) + DigitValue(p[3])

\* C8: the partition index is the prefix's value modulo 5 with 0 mapped to
\* 5, so 003, 008, 010, 000 give 3, 3, 5, 5, and every feature of a dataset
\* is written under the tree of its partition index only.
C8_PartitionLaw ==
    /\ pc \in {"burst", "union", "emit"} =>
          /\ i \in 1..5
          /\ (i - PrefixValue(path)) % 5 = 0
          /\ path = <<"0", "0", "3">> => i = 3
          /\ path = <<"0", "0", "8">> => i = 3
          /\ path = <<"0", "1", "0">> => i = 5
          /\ path = <<"0", "0", "0">> => i = 5
    /\ \A e \in Logged :
          LET part == e[1][3]
              p == log[e[1]][e[2]].properties.name[1]
          IN  part \in 1..5 /\ (part - PrefixValue(p)) % 5 = 0

C8_Witness ==
    \E e \in Logged :
        /\ log[e[1]][e[2]].properties.name[1] = <<"0", "1", "0">>
        /\ e[1][3] = 5

\* C9 as claimed: every overview feature goes to zoom 1, tileX 1, tileY 1.
C9_OverviewAtTile11 ==
    mode = "dissolve" =>
        \A k \in DOMAIN log : k[4] = 1 /\ k[5] = 1 /\ k[6] = 1

\* C9 as amended: every overview feature goes to the file
\* S1burst<Direction><PartitionIndex>/1/1/0.geojson (zoom 1, tileX 1,
\* tileY 0), wherever the dissolved region lies.
C9_OverviewAtTile10 ==
    mode = "dissolve" =>
        \A k \in DOMAIN log :
            /\ k[1] = "S1burst" /\ k[2] \in {"A", "D"} /\ k[3] \in 1..5
            /\ k[4] = 1 /\ k[5] = 1 /\ k[6] = 0
            /\ k \in DOMAIN fs

C9_Witness ==
    /\ mode = "dissolve"
    /\ \E e1 \in Logged, e2 \in Logged :
          /\ InputFeatures[1].geometry.coordinates[1]
                 \in log[e1[1]][e1[2]].geometry.coordinates
          /\ InputFeatures[2].geometry.coordinates[1]
                 \in log[e2[1]][e2[2]].geometry.coordinates

\* C10: when the polygon list of a direction is empty, the loop over its
\* dissolved polygons visits nothing: no file changes, nothing fails, and
\* main goes on to the other direction or the next dataset.
C10_EmptyDirection ==
    [][ LET polygons == IF dj = 1 THEN polygonsA ELSE polygonsD
        IN  /\ (pc = "union" /\ polygons = <<>>) =>
                   (pc' = "emit" /\ pending' = {} /\ fs' = fs)
            /\ (pc = "emit" /\ polygons = <<>>) =>
                   (fs' = fs /\ pc' = (IF dj = 1 THEN "union" ELSE "kmz")) ]_vars

C10_Witness ==
    /\ mode = "dissolve" /\ pc = "kmz" /\ nkmz = 2
    /\ polygonsA # <<>> /\ polygonsD = <<>>
    /\ DOMAIN log = {<<"S1burst", "A", 3, 1, 1, 0>>}
    /\ Len(log[<<"S1burst", "A", 3, 1, 1, 0>>]) = 2

===========================================================================
